---------------------------- MODULE Spec2Model ----------------------------
(***************************************************************************)
(* Model of src/ap.py: the Upstream Client (make_nws_request,              *)
(* make_github_request, fetch_data), the eleven tools of the Tool Catalog  *)
(* and the SSE connection handler handle_sse.                              *)
(*                                                                         *)
(* Python values are tagged records, so that a body "of any shape" can be  *)
(* handed to a tool and the tool's own subscripting, .get, iteration and   *)
(* slicing decide whether it returns a text or raises.                     *)
(***************************************************************************)
EXTENDS Integers, Sequences, FiniteSets, TLC

VARIABLES
    INDIAN_RAIL_API_KEY,  \* os.getenv("INDIAN_RAIL_API_KEY"), read once
    GITHUB_TOKEN,         \* os.getenv("GITHUB_TOKEN"), read once
    pc,                   \* position of the tool coroutine
    op,                   \* name of the tool being run
    args,                 \* its arguments
    requests,             \* upstream GET requests issued by this invocation
    replies,              \* outcomes of those requests
    result,               \* value returned, or exception raised
    conn,                 \* per connection: position of handle_sse
    log,                  \* per connection: logger lines written by handle_sse
    host,                 \* per connection: what handle_sse handed to the host
    server                \* the uvicorn process

toolVars == <<INDIAN_RAIL_API_KEY, GITHUB_TOKEN, pc, op, args, requests, replies, result>>
sseVars == <<conn, log, host, server>>
vars == <<INDIAN_RAIL_API_KEY, GITHUB_TOKEN, pc, op, args, requests, replies, result,
          conn, log, host, server>>

---------------------------------------------------------------------------
(* Bounds *)

MaxItems == 3      \* longest list an upstream body carries
MaxConns == 3      \* connections the server sees

---------------------------------------------------------------------------
(* Python values *)

None == [t |-> "none"]
S(s) == [t |-> "str", v |-> s]
N(n) == [t |-> "int", v |-> n]
L(xs) == [t |-> "list", v |-> xs]
D(f) == [t |-> "dict", v |-> f]
Raise(e) == [t |-> "raise", v |-> e]
Await(req) == [t |-> "await", v |-> req]

IsRaise(x) == x.t = "raise"

Min(a, b) == IF a <= b THEN a ELSE b

\* bool(x)
Truthy(x) ==
    CASE x.t = "none" -> FALSE
      [] x.t = "str"  -> x.v # ""
      [] x.t = "int"  -> x.v # 0
      [] x.t = "list" -> x.v # <<>>
      [] x.t = "dict" -> DOMAIN x.v # {}

\* x.get(k, d)
Get(x, k, d) ==
    CASE x.t = "raise" -> x
      [] x.t = "dict"  -> IF k \in DOMAIN x.v THEN x.v[k] ELSE d
      [] OTHER         -> Raise("AttributeError")

\* x[k] for a string key k
Index(x, k) ==
    CASE x.t = "raise" -> x
      [] x.t = "dict"  -> IF k \in DOMAIN x.v THEN x.v[k] ELSE Raise("KeyError")
      [] OTHER         -> Raise("TypeError")

\* s occurs in the string t
Substring(s, t) ==
    \E i \in 1..(Len(t) - Len(s) + 1) : SubSeq(t, i, i + Len(s) - 1) = s

\* `k in x` raises for these x
InRaises(x) == x.t \in {"none", "int"}

\* k in x, for a string k, where it does not raise
In(k, x) ==
    CASE x.t = "dict" -> k \in DOMAIN x.v
      [] x.t = "list" -> \E i \in DOMAIN x.v : x.v[i].t = "str" /\ x.v[i].v = k
      [] x.t = "str"  -> Substring(k, x.v)
      [] OTHER        -> FALSE

\* x[:n], n >= 0
Slice(x, n) ==
    CASE x.t = "raise" -> x
      [] x.t = "str"   -> S(SubSeq(x.v, 1, Min(n, Len(x.v))))
      [] x.t = "list"  -> L(SubSeq(x.v, 1, Min(n, Len(x.v))))
      [] OTHER         -> Raise("TypeError")

\* len(x)
PyLen(x) ==
    CASE x.t = "raise" -> x
      [] x.t = "str"   -> N(Len(x.v))
      [] x.t = "list"  -> N(Len(x.v))
      [] x.t = "dict"  -> N(Cardinality(DOMAIN x.v))
      [] OTHER         -> Raise("TypeError")

RECURSIVE SetToSeq(_)
SetToSeq(A) ==
    IF A = {} THEN <<>>
    ELSE LET a == CHOOSE a \in A : TRUE IN <<a>> \o SetToSeq(A \ {a})

\* the values `for y in x` visits, as a list
Iter(x) ==
    CASE x.t = "raise" -> x
      [] x.t = "list"  -> x
      [] x.t = "str"   -> L([i \in 1..Len(x.v) |-> S(SubSeq(x.v, i, i))])
      [] x.t = "dict"  -> LET ks == SetToSeq(DOMAIN x.v)
                          IN L([i \in DOMAIN ks |-> S(ks[i])])
      [] OTHER         -> Raise("TypeError")

\* str(x), as an f-string field renders it; a nested container is rendered
\* by its brackets only
Str(x) ==
    CASE x.t = "none" -> "None"
      [] x.t = "str"  -> x.v
      [] x.t = "int"  -> ToString(x.v)
      [] x.t = "list" -> "[..]"
      [] x.t = "dict" -> "{..}"

RECURSIVE Concat(_)
Concat(ss) == IF ss = <<>> THEN "" ELSE Head(ss) \o Concat(Tail(ss))

RECURSIVE JoinStr(_, _)
JoinStr(ss, sep) ==
    IF ss = <<>> THEN ""
    ELSE IF Len(ss) = 1 THEN ss[1]
    ELSE ss[1] \o sep \o JoinStr(Tail(ss), sep)

\* the first exception among the values, in evaluation order
FirstRaise(xs) ==
    LET I == {i \in DOMAIN xs : IsRaise(xs[i])}
    IN xs[CHOOSE i \in I : \A j \in I : i <= j]

AnyRaise(xs) == \E i \in DOMAIN xs : IsRaise(xs[i])

\* an f-string: its fields are evaluated left to right
Fmt(parts) ==
    IF AnyRaise(parts) THEN FirstRaise(parts)
    ELSE S(Concat([i \in DOMAIN parts |-> Str(parts[i])]))

\* sep.join(texts), texts built one per item by a loop that stops at the
\* first exception
Join(sep, texts) ==
    IF AnyRaise(texts) THEN FirstRaise(texts)
    ELSE S(JoinStr([i \in DOMAIN texts |-> texts[i].v], sep))

\* c if cond else d, where cond may raise
IfElse(cond, c, d) ==
    IF IsRaise(cond) THEN cond ELSE IF Truthy(cond) THEN c ELSE d

SEP == "\n---\n"

---------------------------------------------------------------------------
(* Constants of the program *)

NWS_API_BASE == "https://api.weather.gov"
GITHUB_API_BASE == "https://api.github.com"
USER_AGENT == "weather-github-app/1.0"
INDIAN_RAIL_BASE_URL == "https://indianrailapi.com/api/v2"
TIMEOUT == 30

---------------------------------------------------------------------------
(* HTTP helpers.  A request is what client.get is given; an outcome is     *)
(* either a failure (network error, non-2xx status, body that is not JSON) *)
(* carrying its message, or a parsed JSON body.                            *)

Failed(msg) == [ok |-> FALSE, err |-> msg]
Body(j) == [ok |-> TRUE, body |-> j]

nws_request(url) ==
    [url |-> url,
     headers |-> ("User-Agent" :> USER_AGENT @@ "Accept" :> "application/geo+json"),
     timeout |-> TIMEOUT, follow_redirects |-> FALSE]

github_request(token, url) ==
    [url |-> url,
     headers |-> IF Truthy(token)
                 THEN ("User-Agent" :> USER_AGENT
                       @@ "Accept" :> "application/vnd.github.v3+json"
                       @@ "Authorization" :> ("token " \o Str(token)))
                 ELSE ("User-Agent" :> USER_AGENT
                       @@ "Accept" :> "application/vnd.github.v3+json"),
     timeout |-> TIMEOUT, follow_redirects |-> FALSE]

fetch_request(url) ==
    [url |-> url, headers |-> <<>>, timeout |-> TIMEOUT, follow_redirects |-> TRUE]

\* make_nws_request: what the caller gets for an outcome
make_nws_request(outcome) == IF outcome.ok THEN outcome.body ELSE None

\* make_github_request
make_github_request(outcome) == IF outcome.ok THEN outcome.body ELSE None

\* fetch_data
fetch_data(outcome) ==
    IF outcome.ok THEN outcome.body ELSE D([error |-> S(outcome.err)])

---------------------------------------------------------------------------
(* Weather tools *)

format_alert(feature) ==
    LET props == Index(feature, "properties")
    IN Fmt(<<S("\nEvent: "), Get(props, "event", S("Unknown")),
             S("\nArea: "), Get(props, "areaDesc", S("Unknown")),
             S("\nSeverity: "), Get(props, "severity", S("Unknown")),
             S("\nDescription: "), Get(props, "description", S("No description available")),
             S("\nInstructions: "),
             Get(props, "instruction", S("No specific instructions provided")),
             S("\n")>>)

\* get_alerts up to its await
get_alerts_begin(state) ==
    Await(nws_request(NWS_API_BASE \o "/alerts/active/area/" \o state))

\* get_alerts from its await on
get_alerts_resume(state, data) ==
    IF ~Truthy(data) THEN S("Unable to fetch alerts or no alerts found.")
    ELSE IF InRaises(data) THEN Raise("TypeError")
    ELSE IF ~In("features", data) THEN S("Unable to fetch alerts or no alerts found.")
    ELSE LET features == Index(data, "features")
             it == Iter(features)
         IN IF IsRaise(features) THEN features
            ELSE IF ~Truthy(features) THEN S("No active alerts for this state.")
            ELSE IF IsRaise(it) THEN it
            ELSE Join(SEP, [i \in DOMAIN it.v |-> format_alert(it.v[i])])

\* a float argument as an f-string renders it; the model's coordinates are
\* whole degrees
FloatStr(n) == ToString(n) \o ".0"

get_forecast_begin(latitude, longitude) ==
    Await(nws_request(NWS_API_BASE \o "/points/" \o FloatStr(latitude) \o ","
                      \o FloatStr(longitude)))

\* get_forecast between its two awaits.  client.get of a forecast_url that
\* is no string fails inside make_nws_request's try, which returns None
\* without a request being sent.
get_forecast_resume1(points_data) ==
    LET forecast_url == Index(Index(points_data, "properties"), "forecast")
    IN IF ~Truthy(points_data) THEN S("Unable to fetch forecast data for this location.")
       ELSE IF IsRaise(forecast_url) THEN forecast_url
       ELSE IF forecast_url.t # "str" THEN S("Unable to fetch detailed forecast.")
       ELSE Await(nws_request(forecast_url.v))

forecast_period(period) ==
    Fmt(<<S("\n"), Index(period, "name"),
          S(":\nTemperature: "), Index(period, "temperature"),
          S("°"), Index(period, "temperatureUnit"),
          S("\nWind: "), Index(period, "windSpeed"),
          S(" "), Index(period, "windDirection"),
          S("\nForecast: "), Index(period, "detailedForecast"),
          S("\n")>>)

\* get_forecast from its second await on
get_forecast_resume2(forecast_data) ==
    LET periods == Index(Index(forecast_data, "properties"), "periods")
        it == Iter(Slice(periods, 5))
    IN IF ~Truthy(forecast_data) THEN S("Unable to fetch detailed forecast.")
       ELSE IF IsRaise(it) THEN it
       ELSE Join(SEP, [i \in DOMAIN it.v |-> forecast_period(it.v[i])])

---------------------------------------------------------------------------
(* GitHub read-only tools *)

get_github_user_begin(token, username) ==
    Await(github_request(token, GITHUB_API_BASE \o "/users/" \o username))

get_github_user_resume(username, data) ==
    IF ~Truthy(data) THEN S("Unable to fetch user information for " \o username)
    ELSE Fmt(<<S("\nUsername: "), Get(data, "login", S("N/A")),
               S("\nName: "), Get(data, "name", S("N/A")),
               S("\nBio: "), Get(data, "bio", S("No bio available")),
               S("\nPublic Repos: "), Get(data, "public_repos", N(0)),
               S("\nFollowers: "), Get(data, "followers", N(0)),
               S("\nFollowing: "), Get(data, "following", N(0)),
               S("\nLocation: "), Get(data, "location", S("N/A")),
               S("\nCompany: "), Get(data, "company", S("N/A")),
               S("\nBlog: "), Get(data, "blog", S("N/A")),
               S("\nCreated: "), Get(data, "created_at", S("N/A")),
               S("\n")>>)

get_github_repos_begin(token, username, limit) ==
    Await(github_request(token,
        GITHUB_API_BASE \o "/users/" \o username \o "/repos?sort=updated&per_page="
        \o ToString(Min(limit, 50))))

repos_entry(repo) ==
    Fmt(<<S("\nName: "), Get(repo, "name", S("N/A")),
          S("\nDescription: "), Get(repo, "description", S("No description")),
          S("\nLanguage: "), Get(repo, "language", S("N/A")),
          S("\nStars: "), Get(repo, "stargazers_count", N(0)),
          S("\nForks: "), Get(repo, "forks_count", N(0)),
          S("\nUpdated: "), Get(repo, "updated_at", S("N/A")),
          S("\nURL: "), Get(repo, "html_url", S("N/A")),
          S("\n")>>)

get_github_repos_resume(username, limit, data) ==
    LET it == Iter(data)
    IN IF ~Truthy(data) THEN S("Unable to fetch repositories for " \o username)
       ELSE IF IsRaise(it) THEN it
       ELSE Join(SEP, [i \in DOMAIN it.v |-> repos_entry(it.v[i])])

get_github_repo_info_begin(token, owner, repo) ==
    Await(github_request(token, GITHUB_API_BASE \o "/repos/" \o owner \o "/" \o repo))

get_github_repo_info_resume(owner, repo, data) ==
    IF ~Truthy(data)
    THEN S("Unable to fetch repository information for " \o owner \o "/" \o repo)
    ELSE Fmt(<<S("\nRepository: "), Get(data, "full_name", S("N/A")),
               S("\nDescription: "), Get(data, "description", S("No description")),
               S("\nLanguage: "), Get(data, "language", S("N/A")),
               S("\nStars: "), Get(data, "stargazers_count", N(0)),
               S("\nForks: "), Get(data, "forks_count", N(0)),
               S("\nWatchers: "), Get(data, "watchers_count", N(0)),
               S("\nOpen Issues: "), Get(data, "open_issues_count", N(0)),
               S("\nSize: "), Get(data, "size", N(0)),
               S(" KB\nDefault Branch: "), Get(data, "default_branch", S("N/A")),
               S("\nCreated: "), Get(data, "created_at", S("N/A")),
               S("\nUpdated: "), Get(data, "updated_at", S("N/A")),
               S("\nLicense: "),
               IfElse(Get(data, "license", None),
                      Get(Get(data, "license", D(<<>>)), "name", S("N/A")),
                      S("N/A")),
               S("\nURL: "), Get(data, "html_url", S("N/A")),
               S("\nClone URL: "), Get(data, "clone_url", S("N/A")),
               S("\n")>>)

search_github_repos_begin(token, query, limit) ==
    Await(github_request(token,
        GITHUB_API_BASE \o "/search/repositories?q=" \o query
        \o "&sort=stars&order=desc&per_page=" \o ToString(Min(limit, 30))))

search_entry(repo) ==
    Fmt(<<S("\nName: "), Get(repo, "full_name", S("N/A")),
          S("\nDescription: "), Get(repo, "description", S("No description")),
          S("\nLanguage: "), Get(repo, "language", S("N/A")),
          S("\nStars: "), Get(repo, "stargazers_count", N(0)),
          S("\nForks: "), Get(repo, "forks_count", N(0)),
          S("\nURL: "), Get(repo, "html_url", S("N/A")),
          S("\n")>>)

search_github_repos_resume(query, limit, data) ==
    LET it == Iter(Index(data, "items"))
    IN IF ~Truthy(data) THEN S("Unable to search repositories for query: " \o query)
       ELSE IF InRaises(data) THEN Raise("TypeError")
       ELSE IF ~In("items", data) THEN S("Unable to search repositories for query: " \o query)
       ELSE IF IsRaise(it) THEN it
       ELSE Join(SEP, [i \in DOMAIN it.v |-> search_entry(it.v[i])])

\* the state filter after `if state not in ["open", "closed", "all"]`
issues_state(state) == IF state \in {"open", "closed", "all"} THEN state ELSE "open"

get_github_issues_begin(token, owner, repo, state, limit) ==
    Await(github_request(token,
        GITHUB_API_BASE \o "/repos/" \o owner \o "/" \o repo \o "/issues?state="
        \o issues_state(state) \o "&per_page=" \o ToString(Min(limit, 30))))

\* ", ".join([label['name'] for label in issue.get('labels', [])])
issue_labels(issue) ==
    LET it == Iter(Get(issue, "labels", L(<<>>)))
        names == [i \in DOMAIN it.v |-> Index(it.v[i], "name")]
    IN IF IsRaise(it) THEN it
       ELSE IF AnyRaise(names) THEN FirstRaise(names)
       ELSE IF \E i \in DOMAIN names : names[i].t # "str" THEN Raise("TypeError")
       ELSE S(JoinStr([i \in DOMAIN names |-> names[i].v], ", "))

issues_entry(issue) ==
    LET labels == issue_labels(issue)
    IN IF IsRaise(labels) THEN labels
       ELSE Fmt(<<S("\n#"), Get(issue, "number", S("N/A")),
                  S(": "), Get(issue, "title", S("No title")),
                  S("\nState: "), Get(issue, "state", S("N/A")),
                  S("\nAuthor: "), Get(Get(issue, "user", D(<<>>)), "login", S("N/A")),
                  S("\nLabels: "), IfElse(labels, labels, S("None")),
                  S("\nCreated: "), Get(issue, "created_at", S("N/A")),
                  S("\nURL: "), Get(issue, "html_url", S("N/A")),
                  S("\n")>>)

get_github_issues_resume(owner, repo, state, limit, data) ==
    LET it == Iter(data)
    IN IF ~Truthy(data) THEN S("Unable to fetch issues for " \o owner \o "/" \o repo)
       ELSE IF IsRaise(it) THEN it
       ELSE Join(SEP, [i \in DOMAIN it.v |-> issues_entry(it.v[i])])

get_github_commits_begin(token, owner, repo, limit) ==
    Await(github_request(token,
        GITHUB_API_BASE \o "/repos/" \o owner \o "/" \o repo \o "/commits?per_page="
        \o ToString(Min(limit, 20))))

commits_entry(commit) ==
    LET n == PyLen(Get(Get(commit, "commit", D(<<>>)), "message", S("")))
    IN Fmt(<<S("\nSHA: "), Slice(Get(commit, "sha", S("N/A")), 8),
             S("\nMessage: "),
             Slice(Get(Get(commit, "commit", D(<<>>)), "message", S("No message")), 100),
             IF IsRaise(n) THEN n ELSE IF n.v > 100 THEN S("...") ELSE S(""),
             S("\nAuthor: "),
             Get(Get(Get(commit, "commit", D(<<>>)), "author", D(<<>>)), "name", S("N/A")),
             S("\nDate: "),
             Get(Get(Get(commit, "commit", D(<<>>)), "author", D(<<>>)), "date", S("N/A")),
             S("\nURL: "), Get(commit, "html_url", S("N/A")),
             S("\n")>>)

get_github_commits_resume(owner, repo, limit, data) ==
    LET it == Iter(data)
    IN IF ~Truthy(data) THEN S("Unable to fetch commits for " \o owner \o "/" \o repo)
       ELSE IF IsRaise(it) THEN it
       ELSE Join(SEP, [i \in DOMAIN it.v |-> commits_entry(it.v[i])])

---------------------------------------------------------------------------
(* Indian Rail tools *)

\* str.upper() on one character of the model's alphabet
UpperChar(c) ==
    CASE c = "a" -> "A" [] c = "b" -> "B" [] c = "c" -> "C" [] c = "d" -> "D"
      [] c = "e" -> "E" [] c = "h" -> "H" [] c = "i" -> "I" [] c = "l" -> "L"
      [] c = "n" -> "N" [] c = "s" -> "S"
      [] OTHER -> c

\* str.upper()
RECURSIVE Upper(_)
Upper(s) ==
    IF s = "" THEN "" ELSE UpperChar(SubSeq(s, 1, 1)) \o Upper(SubSeq(s, 2, Len(s)))

NOT_CONFIGURED == "Indian Rail API key not configured"

\* station_name_to_code_begin without its credential check
station_name_to_code_begin_ungated(key, station_name) ==
    Await(fetch_request(
        INDIAN_RAIL_BASE_URL \o "/StationNameToCode/apikey/" \o Str(key)
        \o "/StationName/" \o Upper(station_name)))

station_name_to_code_begin(key, station_name) ==
    IF ~Truthy(key) THEN S(NOT_CONFIGURED)
    ELSE Await(fetch_request(
        INDIAN_RAIL_BASE_URL \o "/StationNameToCode/apikey/" \o Str(key)
        \o "/StationName/" \o Upper(station_name)))

station_lines(station) ==
    Fmt(<<S("Name: "), Get(station, "StationName", S("N/A")),
          S("\nCode: "), Get(station, "StationCode", S("N/A")),
          S("\nState: "), Get(station, "StateName", S("N/A")),
          S("\n---\n")>>)

\* data.get('ResponseCode') == 200
Is200(x) == x.t = "int" /\ x.v = 200

station_name_to_code_resume(station_name0, data) ==
    LET station_name == Upper(station_name0)
        rc == Get(data, "ResponseCode", None)
        st == Get(data, "Station", None)
        stations == Index(data, "Station")
        it == Iter(Slice(stations, 5))
        none == S("No stations found for '" \o station_name \o "'")
    IN IF InRaises(data) THEN Raise("TypeError")
       ELSE IF In("error", data)
       THEN Fmt(<<S("Error fetching station code: "), Index(data, "error")>>)
       ELSE IF IsRaise(rc) THEN rc
       ELSE IF ~Is200(rc) THEN none
       ELSE IF ~Truthy(st) THEN none
       ELSE IF stations.t # "list" THEN none
       ELSE Join("", <<S("Station codes found:\n")>>
                     \o [i \in DOMAIN it.v |-> station_lines(it.v[i])])

get_train_schedule_indian_rail_begin(key, train_number) ==
    IF ~Truthy(key) THEN S(NOT_CONFIGURED)
    ELSE Await(fetch_request(
        INDIAN_RAIL_BASE_URL \o "/TrainSchedule/apikey/" \o Str(key)
        \o "/TrainNumber/" \o train_number))

route_lines(station) ==
    Fmt(<<S("Station: "), Get(station, "StationName", S("N/A")),
          S(" ("), Get(station, "StationCode", S("N/A")),
          S(")\nArrival: "), Get(station, "ArrivalTime", S("N/A")),
          S(" | Departure: "), Get(station, "DepartureTime", S("N/A")),
          S("\nDistance: "), Get(station, "DistanceFromSource", S("N/A")),
          S(" km\n---\n")>>)

get_train_schedule_indian_rail_resume(train_number, data) ==
    LET rc == Get(data, "ResponseCode", None)
        rt == Get(data, "Route", None)
        route == Index(data, "Route")
        it == Iter(Slice(route, 10))
        head == Fmt(<<S("Train " \o train_number \o " Schedule:\n"),
                      S("Train Name: "), Get(data, "TrainName", S("N/A")),
                      S("\nTrain Number: "), Get(data, "TrainNumber", S("N/A")),
                      S("\n\n")>>)
        none == S("No schedule found for train " \o train_number)
    IN IF InRaises(data) THEN Raise("TypeError")
       ELSE IF In("error", data)
       THEN Fmt(<<S("Error fetching train schedule: "), Index(data, "error")>>)
       ELSE IF IsRaise(rc) THEN rc
       ELSE IF ~Is200(rc) THEN none
       ELSE IF ~Truthy(rt) THEN none
       ELSE IF route.t # "list" THEN head
       ELSE Join("", <<head, S("Schedule:\n")>>
                     \o [i \in DOMAIN it.v |-> route_lines(it.v[i])])

get_all_trains_on_station_begin(key, station_code) ==
    IF ~Truthy(key) THEN S(NOT_CONFIGURED)
    ELSE Await(fetch_request(
        INDIAN_RAIL_BASE_URL \o "/AllTrainOnStation/apikey/" \o Str(key)
        \o "/StationCode/" \o Upper(station_code)))

train_lines(train) ==
    Fmt(<<S("Train: "), Get(train, "TrainName", S("N/A")),
          S(" ("), Get(train, "TrainNumber", S("N/A")),
          S(")\nArrival: "), Get(train, "ArrivalTime", S("N/A")),
          S(" | Departure: "), Get(train, "DepartureTime", S("N/A")),
          S("\nSource: "), Get(train, "SourceStationName", S("N/A")),
          S(" | Destination: "), Get(train, "DestinationStationName", S("N/A")),
          S("\n---\n")>>)

get_all_trains_on_station_resume(station_code0, data) ==
    LET station_code == Upper(station_code0)
        rc == Get(data, "ResponseCode", None)
        tr == Get(data, "Trains", None)
        trains == Index(data, "Trains")
        it == Iter(Slice(trains, 15))
        none == S("No trains found for station " \o station_code)
    IN IF InRaises(data) THEN Raise("TypeError")
       ELSE IF In("error", data)
       THEN Fmt(<<S("Error fetching trains for station: "), Index(data, "error")>>)
       ELSE IF IsRaise(rc) THEN rc
       ELSE IF ~Is200(rc) THEN none
       ELSE IF ~Truthy(tr) THEN none
       ELSE IF IsRaise(it) THEN it
       ELSE Join("", <<S("Trains at station " \o station_code \o ":\n")>>
                     \o [i \in DOMAIN it.v |-> train_lines(it.v[i])])

---------------------------------------------------------------------------
(* The tools by name: the part up to the first await, the upstream helper  *)
(* each tool awaits, and the part that runs when the awaited helper        *)
(* returns (stage = number of requests issued so far).                     *)

WeatherTools == {"get_alerts", "get_forecast"}
GithubTools == {"get_github_user", "get_github_repos", "get_github_repo_info",
                "search_github_repos", "get_github_issues", "get_github_commits"}
RailTools == {"station_name_to_code", "get_train_schedule_indian_rail",
              "get_all_trains_on_station"}
Tools == WeatherTools \cup GithubTools \cup RailTools

Begin(key, token, o, a) ==
    CASE o = "get_alerts" -> get_alerts_begin(a.state)
      [] o = "get_forecast" -> get_forecast_begin(a.latitude, a.longitude)
      [] o = "get_github_user" -> get_github_user_begin(token, a.username)
      [] o = "get_github_repos" -> get_github_repos_begin(token, a.username, a.limit)
      [] o = "get_github_repo_info" -> get_github_repo_info_begin(token, a.owner, a.repo)
      [] o = "search_github_repos" -> search_github_repos_begin(token, a.query, a.limit)
      [] o = "get_github_issues" ->
            get_github_issues_begin(token, a.owner, a.repo, a.state, a.limit)
      [] o = "get_github_commits" -> get_github_commits_begin(token, a.owner, a.repo, a.limit)
      [] o = "station_name_to_code" -> station_name_to_code_begin(key, a.station_name)
      [] o = "get_train_schedule_indian_rail" ->
            get_train_schedule_indian_rail_begin(key, a.train_number)
      [] o = "get_all_trains_on_station" ->
            get_all_trains_on_station_begin(key, a.station_code)

Client(o, outcome) ==
    CASE o \in WeatherTools -> make_nws_request(outcome)
      [] o \in GithubTools -> make_github_request(outcome)
      [] o \in RailTools -> fetch_data(outcome)

Resume(o, a, stage, data) ==
    CASE o = "get_alerts" -> get_alerts_resume(a.state, data)
      [] o = "get_forecast" ->
            IF stage = 1 THEN get_forecast_resume1(data) ELSE get_forecast_resume2(data)
      [] o = "get_github_user" -> get_github_user_resume(a.username, data)
      [] o = "get_github_repos" -> get_github_repos_resume(a.username, a.limit, data)
      [] o = "get_github_repo_info" -> get_github_repo_info_resume(a.owner, a.repo, data)
      [] o = "search_github_repos" -> search_github_repos_resume(a.query, a.limit, data)
      [] o = "get_github_issues" ->
            get_github_issues_resume(a.owner, a.repo, a.state, a.limit, data)
      [] o = "get_github_commits" -> get_github_commits_resume(a.owner, a.repo, a.limit, data)
      [] o = "station_name_to_code" -> station_name_to_code_resume(a.station_name, data)
      [] o = "get_train_schedule_indian_rail" ->
            get_train_schedule_indian_rail_resume(a.train_number, data)
      [] o = "get_all_trains_on_station" ->
            get_all_trains_on_station_resume(a.station_code, data)

---------------------------------------------------------------------------
(* Inputs: arguments a caller supplies, and outcomes of an upstream GET    *)

\* the number of entries a caller asks for, on both sides of every cap
Limits == {1, 2, 3, 10, 20, 21, 30, 31, 50, 51, 100}
StateCodes == {"CA", "ca", "Ca"}
StationNames == {"delhi", "DELHI", "Delhi"}
StationCodes == {"ndls", "NDLS", "Ndls"}
IssueStates == {"open", "closed", "all", "bogus", "OPEN"}
Degrees == {-120, 38}

ArgsOf(o) ==
    CASE o = "get_alerts" -> {[state |-> s] : s \in StateCodes}
      [] o = "get_forecast" ->
            {[latitude |-> x, longitude |-> y] : x \in Degrees, y \in Degrees}
      [] o = "get_github_user" -> {[username |-> u] : u \in {"octocat", "ghost"}}
      [] o = "get_github_repos" -> {[username |-> "octocat", limit |-> l] : l \in Limits}
      [] o = "get_github_repo_info" -> {[owner |-> "octocat", repo |-> "hello"]}
      [] o = "search_github_repos" -> {[query |-> "tla", limit |-> l] : l \in Limits}
      [] o = "get_github_issues" ->
            {[owner |-> "octocat", repo |-> "hello", state |-> s, limit |-> l] :
                s \in IssueStates, l \in Limits}
      [] o = "get_github_commits" ->
            {[owner |-> "octocat", repo |-> "hello", limit |-> l] : l \in Limits}
      [] o = "station_name_to_code" -> {[station_name |-> s] : s \in StationNames}
      [] o = "get_train_schedule_indian_rail" ->
            {[train_number |-> n] : n \in {"12951", "ab12"}}
      [] o = "get_all_trains_on_station" -> {[station_code |-> s] : s \in StationCodes}

\* the first n items of the samples repeated
Cycle(samples, n) == [i \in 1..n |-> samples[((i - 1) % Len(samples)) + 1]]

RECURSIVE Repeat(_, _)
Repeat(s, n) == IF n = 0 THEN "" ELSE s \o Repeat(s, n - 1)

RepoItems ==
    <<D([name |-> S("hello"), full_name |-> S("octocat/hello"),
         description |-> S("first"), language |-> S("C"), stargazers_count |-> N(7),
         forks_count |-> N(2), updated_at |-> S("2024-01-01"),
         html_url |-> S("https://github.com/octocat/hello")]),
      D([name |-> S("bare")]),
      D([name |-> S("nulls"), description |-> None, language |-> None])>>

IssueItems ==
    <<D([number |-> N(1), title |-> S("bug"), state |-> S("open"),
         user |-> D([login |-> S("octocat")]),
         labels |-> L(<<D([name |-> S("p1")]), D([name |-> S("ui")])>>),
         created_at |-> S("2024-01-01"), html_url |-> S("https://github.com/i/1")]),
      D([number |-> N(2), labels |-> L(<<>>)]),
      D([title |-> S("untitled")])>>

BadIssueItems ==
    <<D([number |-> N(3), user |-> None]),
      D([number |-> N(4), labels |-> L(<<D([id |-> N(9)])>>)]),
      D([number |-> N(5), labels |-> None])>>

CommitItems ==
    <<D([sha |-> S("0123456789abcdef"),
         commit |-> D([message |-> S("fix"),
                       author |-> D([name |-> S("Ann"), date |-> S("2024-01-01")])]),
         html_url |-> S("https://github.com/c/1")]),
      D([sha |-> S("abc"), commit |-> D([message |-> S(Repeat("m", 101))])]),
      D(<<>>)>>

BadCommitItems ==
    <<D([sha |-> None]),
      D([sha |-> S("abc"), commit |-> None]),
      D([sha |-> S("abc"), commit |-> D([message |-> None])])>>

FeatureItems ==
    <<D([properties |-> D([event |-> S("Flood"), areaDesc |-> S("Coast"),
                           severity |-> S("Severe"), description |-> S("rain"),
                           instruction |-> S("move")])]),
      D([properties |-> D(<<>>)]),
      D([properties |-> D([event |-> S("Heat"), instruction |-> None])])>>

BadFeatureItems == <<D([id |-> S("urn:1")]), D([properties |-> None])>>

PeriodItems ==
    <<D([name |-> S("Tonight"), temperature |-> N(55), temperatureUnit |-> S("F"),
         windSpeed |-> S("5 mph"), windDirection |-> S("NW"),
         detailedForecast |-> S("Clear")])>>

BadPeriodItems == <<D([name |-> S("Tonight")])>>

StationItems ==
    <<D([StationName |-> S("NEW DELHI"), StationCode |-> S("NDLS"),
         StateName |-> S("Delhi")]),
      D([StationName |-> S("DELHI")])>>

RouteItems ==
    <<D([StationName |-> S("NEW DELHI"), StationCode |-> S("NDLS"),
         ArrivalTime |-> S("First"), DepartureTime |-> S("16:55"),
         DistanceFromSource |-> N(0)]),
      D([StationCode |-> S("KOTA")])>>

TrainItems ==
    <<D([TrainName |-> S("RAJDHANI"), TrainNumber |-> S("12951"),
         ArrivalTime |-> S("08:35"), DepartureTime |-> S("Last"),
         SourceStationName |-> S("MUMBAI"), DestinationStationName |-> S("NEW DELHI")]),
      D([TrainNumber |-> S("12952")])>>

FORECAST_URL == "https://api.weather.gov/gridpoints/STO/1,2/forecast"

\* JSON bodies an upstream may answer with: the shapes each tool expects,
\* with keys missing and fields null, and shapes it does not expect
ListBodies ==
    {L(Cycle(xs, n)) : xs \in {RepoItems, IssueItems, BadIssueItems, CommitItems,
                               BadCommitItems},
                       n \in 0..MaxItems}

DictBodies ==
    {D(<<>>), D([message |-> S("Not Found")]), D([error |-> S("quota exceeded")]),
     D([login |-> S("octocat"), name |-> S("Octo"), bio |-> None,
        public_repos |-> N(8), followers |-> N(3)]),
     D([full_name |-> S("octocat/hello"), license |-> D([name |-> S("MIT")]),
        size |-> N(12)]),
     D([full_name |-> S("octocat/hello"), license |-> None]),
     D([full_name |-> S("octocat/hello"), license |-> S("MIT")]),
     D([features |-> None]),
     D([properties |-> D([forecast |-> S(FORECAST_URL)])]),
     D([properties |-> D([forecast |-> None])]),
     D([properties |-> D(<<>>)]),
     D([properties |-> None]),
     D([ResponseCode |-> N(404)]),
     D([ResponseCode |-> S("200"), Station |-> L(StationItems)]),
     D([ResponseCode |-> N(200), Station |-> S("NDLS")]),
     D([ResponseCode |-> N(200), Station |-> L(<<S("NDLS")>>)]),
     D([ResponseCode |-> N(200), TrainName |-> S("RAJDHANI"), Route |-> S("none")]),
     D([ResponseCode |-> N(200), Route |-> L(<<None>>)]),
     D([ResponseCode |-> N(200), Trains |-> D([count |-> N(0)])]),
     D([ResponseCode |-> N(200), Trains |-> L(<<S("12951")>>)])}
    \cup {D([total_count |-> N(n), items |-> L(Cycle(RepoItems, n))]) : n \in 0..MaxItems}
    \cup {D([features |-> L(Cycle(xs, n))]) :
             xs \in {FeatureItems, BadFeatureItems}, n \in 0..MaxItems}
    \cup {D([properties |-> D([periods |-> L(Cycle(xs, n))])]) :
             xs \in {PeriodItems, BadPeriodItems}, n \in {0, MaxItems, 6}}
    \cup {D([ResponseCode |-> N(200), Station |-> L(Cycle(StationItems, n))]) :
             n \in {0, MaxItems, 6}}
    \cup {D([ResponseCode |-> N(200), TrainName |-> S("RAJDHANI"),
             TrainNumber |-> S("12951"), Route |-> L(Cycle(RouteItems, n))]) :
             n \in {MaxItems, 11}}
    \cup {D([ResponseCode |-> N(200), Trains |-> L(Cycle(TrainItems, n))]) :
             n \in {MaxItems, 16}}

ScalarBodies == {None, S("upstream error"), S("features"), N(7)}

Bodies == ListBodies \cup DictBodies \cup ScalarBodies

\* messages of the exceptions httpx raises
Failures == {"timed out", "404 Not Found", "Expecting value"}

Outcomes == {Failed(m) : m \in Failures} \cup {Body(j) : j \in Bodies}

---------------------------------------------------------------------------
(* The tool coroutine *)

Pending == [t |-> "pending"]

KeyValues == {None, S(""), S("k3y")}
TokenValues == {None, S("ghp_1")}

\* a tool is called: it runs to its first await, or returns
Call(o) ==
    /\ pc = "idle"
    /\ \E a \in ArgsOf(o) :
        LET b == Begin(INDIAN_RAIL_API_KEY, GITHUB_TOKEN, o, a)
        IN /\ op' = o
           /\ args' = a
           /\ replies' = <<>>
           /\ IF b.t = "await"
              THEN pc' = "await" /\ requests' = <<b.v>> /\ result' = Pending
              ELSE pc' = "returned" /\ requests' = <<>> /\ result' = b
    /\ UNCHANGED <<INDIAN_RAIL_API_KEY, GITHUB_TOKEN, sseVars>>

\* the awaited helper returns: the tool runs to its next await, returns or
\* raises
Reply(o) ==
    /\ pc = "await"
    /\ op = o
    /\ \E outcome \in Outcomes :
        LET r == Resume(o, args, Len(requests), Client(o, outcome))
        IN /\ replies' = Append(replies, outcome)
           /\ CASE r.t = "await" ->
                     pc' = "await" /\ requests' = Append(requests, r.v) /\ result' = Pending
                [] r.t = "raise" ->
                     pc' = "raised" /\ result' = r /\ UNCHANGED requests
                [] OTHER ->
                     pc' = "returned" /\ result' = r /\ UNCHANGED requests
    /\ UNCHANGED <<INDIAN_RAIL_API_KEY, GITHUB_TOKEN, op, args, sseVars>>

\* the value or the exception has reached the caller: the coroutine is over
\* and nothing of the invocation is kept
Deliver ==
    /\ pc \in {"returned", "raised"}
    /\ pc' = "idle"
    /\ op' = ""
    /\ args' = <<>>
    /\ requests' = <<>>
    /\ replies' = <<>>
    /\ result' = Pending
    /\ UNCHANGED <<INDIAN_RAIL_API_KEY, GITHUB_TOKEN, sseVars>>

get_alerts == Call("get_alerts") \/ Reply("get_alerts")
get_forecast == Call("get_forecast") \/ Reply("get_forecast")
get_github_user == Call("get_github_user") \/ Reply("get_github_user")
get_github_repos == Call("get_github_repos") \/ Reply("get_github_repos")
get_github_repo_info == Call("get_github_repo_info") \/ Reply("get_github_repo_info")
search_github_repos == Call("search_github_repos") \/ Reply("search_github_repos")
get_github_issues == Call("get_github_issues") \/ Reply("get_github_issues")
get_github_commits == Call("get_github_commits") \/ Reply("get_github_commits")
station_name_to_code == Call("station_name_to_code") \/ Reply("station_name_to_code")
get_train_schedule_indian_rail ==
    Call("get_train_schedule_indian_rail") \/ Reply("get_train_schedule_indian_rail")
get_all_trains_on_station ==
    Call("get_all_trains_on_station") \/ Reply("get_all_trains_on_station")

---------------------------------------------------------------------------
(* The Starlette app and the process.  Each GET /sse is one run of         *)
(* handle_sse; what sse.connect_sse and mcp_server.run do inside is the    *)
(* libraries', and shows here only as the ways the two awaits can end.     *)

Conns == 1..MaxConns
Loggers == 0..MaxConns      \* 0 holds the log lines of __main__

\* messages of exceptions raised inside the try of handle_sse
SseErrors == {"connection reset", "stream closed"}

Info(msg) == [level |-> "INFO", msg |-> msg]
Error(msg) == [level |-> "ERROR", msg |-> msg]

NoOutcome == [kind |-> "none"]
Returned == [kind |-> "returned"]
Raised(e) == [kind |-> "raised", exc |-> e]
Cancelled == [kind |-> "cancelled"]

\* Route("/sse", endpoint=handle_sse): a GET arrives; handle_sse logs and
\* enters sse.connect_sse
handle_sse_initiated(c) ==
    /\ server = "running"
    /\ conn[c] = "idle"
    /\ conn' = [conn EXCEPT ![c] = "connecting"]
    /\ log' = [log EXCEPT ![c] = Append(@, Info("SSE connection initiated"))]
    /\ UNCHANGED <<host, server, toolVars>>

\* connect_sse yields the streams; handle_sse logs and awaits mcp_server.run
handle_sse_established(c) ==
    /\ server = "running"
    /\ conn[c] = "connecting"
    /\ conn' = [conn EXCEPT ![c] = "serving"]
    /\ log' = [log EXCEPT ![c] =
                  Append(@, Info("SSE connection established, starting MCP server"))]
    /\ UNCHANGED <<host, server, toolVars>>

\* handle_sse_except without its `raise`: the exception is logged and
\* swallowed
handle_sse_except_swallowed(c, e) ==
    /\ log' = [log EXCEPT ![c] = Append(@, Error("Error in SSE handler: " \o e))]
    /\ host' = [host EXCEPT ![c] = Returned]
    /\ UNCHANGED server

\* except Exception as e: logger.error(...); raise
handle_sse_except(c, e) ==
    /\ log' = [log EXCEPT ![c] = Append(@, Error("Error in SSE handler: " \o e))]
    /\ host' = [host EXCEPT ![c] = Raised(e)]
    /\ UNCHANGED server

\* an Exception is raised by connect_sse or by mcp_server.run
handle_sse_raises(c) ==
    /\ server = "running"
    /\ conn[c] \in {"connecting", "serving"}
    /\ conn' = [conn EXCEPT ![c] = "failed"]
    /\ \E e \in SseErrors : handle_sse_except(c, e)
    /\ UNCHANGED toolVars

\* mcp_server.run returns and the context manager exits: handle_sse returns
handle_sse_returns(c) ==
    /\ server = "running"
    /\ conn[c] = "serving"
    /\ conn' = [conn EXCEPT ![c] = "closed"]
    /\ host' = [host EXCEPT ![c] = Returned]
    /\ UNCHANGED <<log, server, toolVars>>

\* the task is cancelled at one of the awaits: CancelledError is no
\* Exception, so the except clause does not run
handle_sse_cancelled(c) ==
    /\ server = "running"
    /\ conn[c] \in {"connecting", "serving"}
    /\ conn' = [conn EXCEPT ![c] = "closed"]
    /\ host' = [host EXCEPT ![c] = Cancelled]
    /\ UNCHANGED <<log, server, toolVars>>

\* uvicorn.run(...) is serving
main_serving ==
    /\ server = "starting"
    /\ server' = "running"
    /\ UNCHANGED <<conn, log, host, toolVars>>

\* except KeyboardInterrupt: print("\nServer stopped by user")
main_keyboard_interrupt ==
    /\ server \in {"starting", "running"}
    /\ server' = "stopped"
    /\ UNCHANGED <<conn, log, host, toolVars>>

\* except Exception as e: logger.error(f"Server error: {e}"); raise
main_server_error ==
    /\ server = "starting"
    /\ server' = "failed"
    /\ log' = [log EXCEPT ![0] = Append(@, Error("Server error: bind failed"))]
    /\ UNCHANGED <<conn, host, toolVars>>

Init ==
    /\ INDIAN_RAIL_API_KEY \in KeyValues
    /\ GITHUB_TOKEN \in TokenValues
    /\ pc = "idle"
    /\ op = ""
    /\ args = <<>>
    /\ requests = <<>>
    /\ replies = <<>>
    /\ result = Pending
    /\ conn = [c \in Conns |-> "idle"]
    /\ log = [c \in Loggers |-> <<>>]
    /\ host = [c \in Conns |-> NoOutcome]
    /\ server = "starting"

Next ==
    \/ get_alerts
    \/ get_forecast
    \/ get_github_user
    \/ get_github_repos
    \/ get_github_repo_info
    \/ search_github_repos
    \/ get_github_issues
    \/ get_github_commits
    \/ station_name_to_code
    \/ get_train_schedule_indian_rail
    \/ get_all_trains_on_station
    \/ Deliver

Spec == Init /\ [][Next]_vars

SseNext ==
    \/ \E c \in Conns : handle_sse_initiated(c)
    \/ \E c \in Conns : handle_sse_established(c)
    \/ \E c \in Conns : handle_sse_raises(c)
    \/ \E c \in Conns : handle_sse_returns(c)
    \/ \E c \in Conns : handle_sse_cancelled(c)
    \/ main_serving
    \/ main_keyboard_interrupt
    \/ main_server_error

SseSpec == Init /\ [][SseNext]_vars

---------------------------------------------------------------------------
(* Properties *)

Last(s) == s[Len(s)]

\* occurrences of h in s
CountOcc(s, h) ==
    Cardinality({i \in 1..(Len(s) - Len(h) + 1) : SubSeq(s, i, i + Len(h) - 1) = h})

ListTools == {"get_github_repos", "search_github_repos", "get_github_issues",
              "get_github_commits"}

\* the documented cap of a list-returning tool
Cap(o) ==
    CASE o = "get_github_repos" -> 50
      [] o = "search_github_repos" -> 30
      [] o = "get_github_issues" -> 30
      [] o = "get_github_commits" -> 20

\* the text every rendered entry of the tool starts with
EntryHeader(o) ==
    CASE o = "get_github_repos" -> "\nName: "
      [] o = "search_github_repos" -> "\nName: "
      [] o = "get_github_issues" -> "\n#"
      [] o = "get_github_commits" -> "\nSHA: "

\* the number of items the upstream returned to the tool
ItemsReturned(o, outcome) ==
    IF ~outcome.ok THEN 0
    ELSE IF o = "search_github_repos"
    THEN IF outcome.body.t = "dict" /\ "items" \in DOMAIN outcome.body.v
            /\ outcome.body.v["items"].t = "list"
         THEN Len(outcome.body.v["items"].v) ELSE 0
    ELSE IF outcome.body.t = "list" THEN Len(outcome.body.v) ELSE 0

\* C1: a list-returning tool with cap C, called with limit L, renders at
\* most min(L, C) entries and at most as many entries as the upstream
\* returned items.
C1_RenderedEntriesWithinLimit ==
    (pc = "returned" /\ op \in ListTools /\ replies # <<>>) =>
        LET n == CountOcc(result.v, EntryHeader(op))
        IN /\ n <= Min(args.limit, Cap(op))
           /\ n <= ItemsReturned(op, Last(replies))

\* C2: no invocation of a catalog tool ends by raising, whatever the
\* arguments and whatever the upstream answered.
C2_NoFaultEscapesCatalog == pc # "raised"

\* C3: when the upstream helper hands the tool its absent-data sentinel, the
\* tool returns (never raises) a text fixed by the tool and its arguments:
\* the text it returns for every other failure as well.
C3_AbsentDataTextIsFixed ==
    (pc \in {"returned", "raised"} /\ replies # <<>> /\ ~Last(replies).ok) =>
        /\ pc = "returned"
        /\ \A m \in Failures :
              result = Resume(op, args, Len(replies), Client(op, Failed(m)))

\* C4: with the rail credential unset, an invocation of a rail tool issues
\* no upstream request at any point and returns exactly
\* "Indian Rail API key not configured".
C4_CredentialGating ==
    (~Truthy(INDIAN_RAIL_API_KEY) /\ op \in RailTools) =>
        /\ requests = <<>>
        /\ pc = "returned"
        /\ result = S("Indian Rail API key not configured")

\* C4 witness: station_name_to_code has returned with the credential unset.
C4_Witness ==
    /\ INDIAN_RAIL_API_KEY = None
    /\ op = "station_name_to_code"
    /\ args.station_name = "delhi"
    /\ pc = "returned"
    /\ requests = <<>>

\* str.lower() on one character of the model's alphabet
LowerChar(c) ==
    CASE c = "A" -> "a" [] c = "B" -> "b" [] c = "C" -> "c" [] c = "D" -> "d"
      [] c = "E" -> "e" [] c = "H" -> "h" [] c = "I" -> "i" [] c = "L" -> "l"
      [] c = "N" -> "n" [] c = "S" -> "s"
      [] OTHER -> c

RECURSIVE Lower(_)
Lower(s) ==
    IF s = "" THEN "" ELSE LowerChar(SubSeq(s, 1, 1)) \o Lower(SubSeq(s, 2, Len(s)))

CodeLikeTools == {"station_name_to_code", "get_all_trains_on_station", "get_alerts"}

\* the station/code-like input among the arguments
CodeArg(o, a) ==
    CASE o = "station_name_to_code" -> a.station_name
      [] o = "get_all_trains_on_station" -> a.station_code
      [] o = "get_alerts" -> a.state

\* the arguments with the station/code-like input replaced by s
WithCodeArg(o, s) ==
    CASE o = "station_name_to_code" -> [station_name |-> s]
      [] o = "get_all_trains_on_station" -> [station_code |-> s]
      [] o = "get_alerts" -> [state |-> s]

\* C5: an invocation whose station/code-like input is lowercase issues the
\* upstream request URL that the uppercase variant of the input issues.
C5_LowercaseSameRequestAsUppercase ==
    (op \in CodeLikeTools /\ requests # <<>>
     /\ CodeArg(op, args) = Lower(CodeArg(op, args))) =>
        requests[1].url =
            Begin(INDIAN_RAIL_API_KEY, GITHUB_TOKEN, op,
                  WithCodeArg(op, Upper(CodeArg(op, args)))).v.url

\* the error line handle_sse writes for exception e
Logged(c, e) ==
    \E i \in DOMAIN log[c] : log[c][i] = Error("Error in SSE handler: " \o e)

=============================================================================
